---- MODULE Spec2Model ----
(***************************************************************************)
(* Model of impy's ImagePreprocess (src/impy/ImagePreprocess.py):          *)
(*   get_valid_padding / get_same_padding   the padding calculators        *)
(*   divideIntoPatches                      the patch-grid planner         *)
(*   lazySAMEpad                            the zero padder                *)
(*   adjustImage                            the region-of-interest adjuster*)
(*   includeBoundingBoxes                   the bounding-box clipper       *)
(* Every operation is a function of its arguments.  A behaviour is one     *)
(* call: Init draws the arguments, the actions run the call.  The two      *)
(* while(True) loops of the calculators are run one iteration per step,    *)
(* because they do not end when the stride does not advance the window.    *)
(***************************************************************************)
EXTENDS Integers, Sequences, FiniteSets

VARIABLES
  pc,     \* position in the call: start, height_loop, width_loop, tail, done, raised
  args,   \* the arguments of the call (args.op names the operation)
  plan,   \* the locals of divideIntoPatches
  calc,   \* the locals of get_valid_padding / get_same_padding
  ret,    \* the returned value (meaningful when pc = "done")
  exc     \* the exception raised (meaningful when pc = "raised")

vars == <<pc, args, plan, calc, ret, exc>>

\* Python's None: for a string or integer parameter, and for a pair.
None == "None"
NonePair == <<>>

\* ------------------------------------------------------------------ bounds
\* Largest frame dimension drawn for the planner and the calculators.
MaxFrame == 4
\* The calculators' loops are cut after IterCap iterations: no terminating
\* call of the model needs that many (see LoopsWithinCap).
IterCap == 2 * MaxFrame + 6

Max(a, b) == IF a >= b THEN a ELSE b
Min(a, b) == IF a <= b THEN a ELSE b

\* ------------------------------------------------- the padding calculators
NoCalc ==
  [fn |-> None,
   slide_window_height |-> 0, stride_height |-> 0, image_height |-> 0,
   slide_window_width |-> 0, stride_width |-> 0, image_width |-> 0,
   number_patches_height |-> 0, number_patches_width |-> 0]

\* The frame of a calculator call: its six parameters and the two counters
\* set to 0 (lines 484-485, 524-525).
EnterCalc(fn, swh, sh, ih, sww, sw, iw) ==
  [fn |-> fn,
   slide_window_height |-> swh, stride_height |-> sh, image_height |-> ih,
   slide_window_width |-> sww, stride_width |-> sw, image_width |-> iw,
   number_patches_height |-> 0, number_patches_width |-> 0]

\* The loop test "if slide_window <= image" (lines 487, 495, 528, 536).
WindowFits(slide_window, image) == slide_window <= image

\* "slide_window += stride" (lines 488, 496, 529, 537).
AdvanceWindowMutant(slide_window, stride) == slide_window + stride + 1
AdvanceWindow(slide_window, stride) == slide_window + stride

\* A whole run of one while(True) loop (lines 486-493) from the given window
\* and counter: the window and the counter at the break.  Only to be applied
\* where the loop ends (stride > 0, or a window that does not fit).
RECURSIVE RunLoop(_, _, _, _)
RunLoop(slide_window, stride, image, number_patches) ==
  IF WindowFits(slide_window, image)
    THEN RunLoop(AdvanceWindow(slide_window, stride), stride, image, number_patches + 1)
    ELSE <<slide_window, number_patches>>

\* "Fix the excess in slide_window" (lines 544-545).
FixExcess(slide_window, stride) == slide_window - stride

\* The assertion of lines 555 and 561.
SameAssertHolds(slide_window, image) == slide_window < image

\* "Calculate how many pixels to add" on one axis (lines 551-562), given the
\* window after FixExcess; only evaluated when the assertion holds.
SameZerosMutant(slide_window, stride, image) ==
  IF slide_window = image THEN 0 ELSE slide_window - image
SameZeros(slide_window, stride, image) ==
  IF slide_window = image THEN 0 ELSE (slide_window + stride) - image

\* ------------------------------------------------------ the patch planner
NoPlan ==
  [imageWidth |-> 0, imageHeight |-> 0,
   slideWindowWidth |-> 0, slideWindowHeight |-> 0,
   strideWidth |-> 0, strideHeight |-> 0,
   padding |-> None, numberPatches |-> <<0, 0>>,
   zeros_h |-> 0, zeros_w |-> 0]

\* Defaults of the unset parameters (lines 319-326).
DefaultPair(p, d) == IF p = NonePair THEN d ELSE p
DefaultPadding(p) == IF p = None THEN "VALID" ELSE p

\* An oversized window or stride is replaced by frameDim - 1 (lines 329-345).
NormalizeDim(dim, frameDim) == IF dim > frameDim THEN frameDim - 1 ELSE dim

\* math.floor(imageDim / patches) of lines 426 and 428 (positive operands).
FitAllStride(imageDim, patches) == imageDim \div patches

\* The inner loop "for j in range(numberPatchesWidth)" (lines 361-368): one
\* patch [startPixelsWidth, startPixelsHeight, endPixelsWidth, endPixelsHeight]
\* per turn, then both width pixels advance by strideWidth.
RECURSIVE InnerLoop(_, _, _, _, _, _, _)
InnerLoop(j, numberPatchesWidth, startPixelsWidth, endPixelsWidth, startPixelsHeight, endPixelsHeight, strideWidth) ==
  IF j >= numberPatchesWidth THEN <<>>
  ELSE <<<<startPixelsWidth, startPixelsHeight, endPixelsWidth, endPixelsHeight>>>>
       \o InnerLoop(j + 1, numberPatchesWidth,
                    startPixelsWidth + strideWidth, endPixelsWidth + strideWidth,
                    startPixelsHeight, endPixelsHeight, strideWidth)

\* The mutant does not re-initialise startPixelsWidth after a row.
RECURSIVE OuterLoopMutant(_, _, _, _, _, _, _, _, _, _)
OuterLoopMutant(i, numberPatchesHeight, numberPatchesWidth, startPixelsWidth, endPixelsWidth, startPixelsHeight, endPixelsHeight, strideWidth, strideHeight, reinitEndWidth) ==
  IF i >= numberPatchesHeight THEN <<>>
  ELSE InnerLoop(0, numberPatchesWidth, startPixelsWidth, endPixelsWidth,
                 startPixelsHeight, endPixelsHeight, strideWidth)
       \o OuterLoopMutant(i + 1, numberPatchesHeight, numberPatchesWidth,
                    startPixelsWidth + strideWidth, reinitEndWidth,
                    startPixelsHeight + strideHeight, endPixelsHeight + strideHeight,
                    strideWidth, strideHeight, reinitEndWidth)

\* The outer loop "for i in range(numberPatchesHeight)" (lines 360-374): a row
\* of patches, then the width pixels are re-initialised to 0 and to
\* reinitEndWidth (slideWindowWidth, or strideWidth at line 455) and the height
\* pixels advance by strideHeight.
RECURSIVE OuterLoop(_, _, _, _, _, _, _, _, _, _)
OuterLoop(i, numberPatchesHeight, numberPatchesWidth, startPixelsWidth, endPixelsWidth, startPixelsHeight, endPixelsHeight, strideWidth, strideHeight, reinitEndWidth) ==
  IF i >= numberPatchesHeight THEN <<>>
  ELSE InnerLoop(0, numberPatchesWidth, startPixelsWidth, endPixelsWidth,
                 startPixelsHeight, endPixelsHeight, strideWidth)
       \o OuterLoop(i + 1, numberPatchesHeight, numberPatchesWidth,
                    0, reinitEndWidth,
                    startPixelsHeight + strideHeight, endPixelsHeight + strideHeight,
                    strideWidth, strideHeight, reinitEndWidth)

\* patchesCoordinates of a planner whose counts are known (lines 348-374,
\* 379-414, 432-458).
PatchesCoordinates(p, numberPatchesHeight, numberPatchesWidth) ==
  OuterLoop(0, numberPatchesHeight, numberPatchesWidth,
            0, p.slideWindowWidth, 0, p.slideWindowHeight,
            p.strideWidth, p.strideHeight,
            IF p.padding = "VALID_FIT_ALL" THEN p.strideWidth ELSE p.slideWindowWidth)

\* ------------------------------------------------- arguments of the calls
FrameDims == 1..MaxFrame
WindowDims == 0..(MaxFrame + 1)
StrideDims == 0..(MaxFrame + 1)
TileCounts == 1..MaxFrame

\* Direct calls of a calculator: window >= 1, frame >= 1, stride down to -1,
\* and the two worked examples of the documentation on both axes.
CalcAxes ==
  ((1..(MaxFrame + 1)) \X ((-1)..MaxFrame) \X FrameDims)
    \cup {<<10, 5, 25>>, <<10, 5, 23>>}

CalcRecord(fn, h, w) ==
  [op |-> fn,
   slide_window_height |-> h[1], stride_height |-> h[2], image_height |-> h[3],
   slide_window_width |-> w[1], stride_width |-> w[2], image_width |-> w[3]]

PlanRecord(iw, ih, q) ==
  [op |-> "divideIntoPatches", imageWidth |-> iw, imageHeight |-> ih,
   slideWindowSize |-> q[1], strideSize |-> q[2], padding |-> q[3],
   numberPatches |-> q[4]]

\* (slideWindowSize, strideSize, padding, numberPatches) of the planner's
\* calls.  VALID and SAME read the window and the stride, VALID_FIT_ALL reads
\* numberPatches only, and the remaining draws leave parameters unset or name
\* an unknown padding.
PlanParams ==
  ((WindowDims \X WindowDims) \X (StrideDims \X StrideDims) \X {"VALID", "SAME"} \X {NonePair})
  \cup
  ({NonePair} \X {NonePair} \X {"VALID_FIT_ALL"} \X (TileCounts \X TileCounts))
  \cup
  ({NonePair, <<1, 1>>} \X {NonePair} \X {None, "VALID", "SAME", "FULL"} \X {NonePair})

\* ------------------------------------------------ calculators, step by step
\* A direct call of get_valid_padding (line 466) or get_same_padding (line 505).
CallCalculator ==
  /\ pc = "start"
  /\ args.op \in {"get_valid_padding", "get_same_padding"}
  /\ calc' = EnterCalc(args.op, args.slide_window_height, args.stride_height, args.image_height, args.slide_window_width, args.stride_width, args.image_width)
  /\ pc' = "height_loop"
  /\ UNCHANGED <<args, plan, ret, exc>>

\* One turn of the first while(True) loop that takes the if-branch
\* (lines 487-489, 528-530).
HeightLoopStep ==
  /\ pc = "height_loop"
  /\ WindowFits(calc.slide_window_height, calc.image_height)
  /\ calc.number_patches_height < IterCap
  /\ calc' = [calc EXCEPT !.slide_window_height = AdvanceWindow(@, calc.stride_height),
                          !.number_patches_height = @ + 1]
  /\ UNCHANGED <<pc, args, plan, ret, exc>>

\* The break of the first loop (lines 490-491, 531-532).
HeightLoopBreak ==
  /\ pc = "height_loop"
  /\ ~WindowFits(calc.slide_window_height, calc.image_height)
  /\ calc.slide_window_height > calc.image_height
  /\ pc' = "width_loop"
  /\ UNCHANGED <<args, plan, calc, ret, exc>>

\* One turn of the second loop (lines 495-497, 536-538).
WidthLoopStep ==
  /\ pc = "width_loop"
  /\ WindowFits(calc.slide_window_width, calc.image_width)
  /\ calc.number_patches_width < IterCap
  /\ calc' = [calc EXCEPT !.slide_window_width = AdvanceWindow(@, calc.stride_width),
                          !.number_patches_width = @ + 1]
  /\ UNCHANGED <<pc, args, plan, ret, exc>>

\* The break of the second loop (lines 498-499, 539-540).
WidthLoopBreak ==
  /\ pc = "width_loop"
  /\ ~WindowFits(calc.slide_window_width, calc.image_width)
  /\ calc.slide_window_width > calc.image_width
  /\ pc' = "tail"
  /\ UNCHANGED <<args, plan, calc, ret, exc>>

\* The value get_same_padding returns, (zeros_h, zeros_w), from its frame
\* after the loops (lines 544-565).
SamePaddingResult(c) ==
  LET slide_window_height == FixExcess(c.slide_window_height, c.stride_height)
      slide_window_width == FixExcess(c.slide_window_width, c.stride_width)
  IN  <<SameZeros(slide_window_height, c.stride_height, c.image_height),
        SameZeros(slide_window_width, c.stride_width, c.image_width)>>

\* Whether one of the two assertions of get_same_padding fails (lines 555, 561).
SamePaddingAsserts(c) ==
  LET slide_window_height == FixExcess(c.slide_window_height, c.stride_height)
      slide_window_width == FixExcess(c.slide_window_width, c.stride_width)
  IN  \/ (slide_window_width # c.image_width
            /\ ~SameAssertHolds(slide_window_width, c.image_width))
      \/ (slide_window_height # c.image_height
            /\ ~SameAssertHolds(slide_window_height, c.image_height))

\* The tuple the planner returns once get_valid_padding has returned its
\* counts (lines 360-377, 400-419, 444-461): the patches, the number of rows,
\* the number of columns and, for SAME, zeros_h and zeros_w.
PlanResult(p, numberPatchesHeight, numberPatchesWidth) ==
  LET patchesCoordinates == PatchesCoordinates(p, numberPatchesHeight, numberPatchesWidth)
  IN  IF p.padding = "SAME"
        THEN <<patchesCoordinates, numberPatchesHeight, numberPatchesWidth, p.zeros_h, p.zeros_w>>
        ELSE <<patchesCoordinates, numberPatchesHeight, numberPatchesWidth>>

\* get_valid_padding returns (line 502): to its direct caller, or into
\* divideIntoPatches, which emits the patches and returns.
GetValidPaddingReturn ==
  /\ pc = "tail"
  /\ calc.fn = "get_valid_padding"
  /\ ret' = IF args.op = "divideIntoPatches"
              THEN PlanResult(plan, calc.number_patches_height, calc.number_patches_width)
              ELSE <<calc.number_patches_height, calc.number_patches_width>>
  /\ pc' = "done"
  /\ UNCHANGED <<args, plan, calc, exc>>

\* get_same_padding fails one of its assertions (lines 555, 561).
GetSamePaddingAssertionError ==
  /\ pc = "tail"
  /\ calc.fn = "get_same_padding"
  /\ SamePaddingAsserts(calc)
  /\ pc' = "raised"
  /\ exc' = "AssertionError"
  /\ UNCHANGED <<args, plan, calc, ret>>

\* get_same_padding returns (line 565) to its direct caller.
GetSamePaddingReturn ==
  /\ pc = "tail"
  /\ calc.fn = "get_same_padding"
  /\ args.op = "get_same_padding"
  /\ ~SamePaddingAsserts(calc)
  /\ ret' = SamePaddingResult(calc)
  /\ pc' = "done"
  /\ UNCHANGED <<args, plan, calc, exc>>

\* get_same_padding returns into divideIntoPatches (lines 385-399): the image
\* is extended by the zeros and get_valid_padding is called on it.
PlanSameContinue ==
  /\ pc = "tail"
  /\ calc.fn = "get_same_padding"
  /\ args.op = "divideIntoPatches"
  /\ ~SamePaddingAsserts(calc)
  /\ LET zeros == SamePaddingResult(calc)
         p == [plan EXCEPT !.zeros_h = zeros[1], !.zeros_w = zeros[2],
                           !.imageWidth = @ + zeros[2], !.imageHeight = @ + zeros[1]]
     IN  /\ plan' = p
         /\ calc' = EnterCalc("get_valid_padding", p.slideWindowHeight, p.strideHeight, p.imageHeight, p.slideWindowWidth, p.strideWidth, p.imageWidth)
  /\ pc' = "height_loop"
  /\ UNCHANGED <<args, ret, exc>>

\* ------------------------------------------------------- divideIntoPatches
\* The locals after the defaults and the normalisation (lines 319-345).
PlanNormalized(a) ==
  LET slideWindowSize == DefaultPair(a.slideWindowSize, <<0, 0>>)
      strideSize == DefaultPair(a.strideSize, <<0, 0>>)
  IN  [imageWidth |-> a.imageWidth, imageHeight |-> a.imageHeight,
       slideWindowWidth |-> NormalizeDim(slideWindowSize[1], a.imageWidth),
       slideWindowHeight |-> NormalizeDim(slideWindowSize[2], a.imageHeight),
       strideWidth |-> NormalizeDim(strideSize[1], a.imageWidth),
       strideHeight |-> NormalizeDim(strideSize[2], a.imageHeight),
       padding |-> DefaultPadding(a.padding),
       numberPatches |-> DefaultPair(a.numberPatches, <<1, 1>>),
       zeros_h |-> 0, zeros_w |-> 0]

\* VALID_FIT_ALL derives the stride and the window from numberPatches
\* (lines 423-429): numberPatches is (columns, rows).
PlanFitAll(p) ==
  LET patchesCols == p.numberPatches[1]
      patchesRows == p.numberPatches[2]
      strideHeight == FitAllStride(p.imageHeight, patchesRows)
      strideWidth == FitAllStride(p.imageWidth, patchesCols)
  IN  [p EXCEPT !.strideHeight = strideHeight, !.slideWindowHeight = strideHeight,
                !.strideWidth = strideWidth, !.slideWindowWidth = strideWidth]

KnownPaddings == {"VALID", "SAME", "VALID_FIT_ALL"}

\* divideIntoPatches up to its first call of a calculator (lines 315-358,
\* 378-390, 421-442).
PlanBegin ==
  /\ pc = "start"
  /\ args.op = "divideIntoPatches"
  /\ DefaultPadding(args.padding) \in KnownPaddings
  /\ LET n == PlanNormalized(args)
         p == IF n.padding = "VALID_FIT_ALL" THEN PlanFitAll(n) ELSE n
         fn == IF p.padding = "SAME" THEN "get_same_padding" ELSE "get_valid_padding"
     IN  /\ plan' = p
         /\ calc' = EnterCalc(fn, p.slideWindowHeight, p.strideHeight, p.imageHeight, p.slideWindowWidth, p.strideWidth, p.imageWidth)
  /\ pc' = "height_loop"
  /\ UNCHANGED <<args, ret, exc>>

\* "Type of padding not understood." (line 463).
PlanUnknownPadding ==
  /\ pc = "start"
  /\ args.op = "divideIntoPatches"
  /\ DefaultPadding(args.padding) \notin KnownPaddings
  /\ plan' = PlanNormalized(args)
  /\ pc' = "raised"
  /\ exc' = "Exception"
  /\ UNCHANGED <<args, calc, ret>>

\* ------------------------------------------------------------- adjustImage
\* The extra context of the documentation is the literal 10 of lines 93, 112
\* and 116.
MinContext == 10

RECURSIVE SeqMin(_)
SeqMin(q) == IF Len(q) = 1 THEN q[1] ELSE Min(q[1], SeqMin(Tail(q)))
RECURSIVE SeqMax(_)
SeqMax(q) == IF Len(q) = 1 THEN q[1] ELSE Max(q[1], SeqMax(Tail(q)))

\* x_coordinates and y_coordinates (lines 101-107): two entries per box.
RECURSIVE XCoordinates(_)
XCoordinates(boundingBoxes) ==
  IF boundingBoxes = <<>> THEN <<>>
  ELSE <<boundingBoxes[1][1], boundingBoxes[1][3]>> \o XCoordinates(Tail(boundingBoxes))
RECURSIVE YCoordinates(_)
YCoordinates(boundingBoxes) ==
  IF boundingBoxes = <<>> THEN <<>>
  ELSE <<boundingBoxes[1][2], boundingBoxes[1][4]>> \o YCoordinates(Tail(boundingBoxes))

\* The boundaries of the bounding boxes (lines 108-109): (xmin, ymin, xmax, ymax).
Boundaries(boundingBoxes) ==
  <<SeqMin(XCoordinates(boundingBoxes)), SeqMin(YCoordinates(boundingBoxes)),
    SeqMax(XCoordinates(boundingBoxes)), SeqMax(YCoordinates(boundingBoxes))>>

\* The offset after the warning branch (lines 89-94): both components become
\* min(frameWidth, frameHeight) - 10 when the frame is not larger than the
\* offset on some axis.
EffectiveOffset(frameHeight, frameWidth, offset) ==
  IF (frameWidth <= offset[1]) \/ (frameHeight <= offset[2])
    THEN LET smallerAxis == Min(frameWidth, frameHeight) - MinContext
         IN  <<smallerAxis, smallerAxis>>
    ELSE offset

\* The mutant tests Roi > axisOffset: no space is added when they are equal.
AxisOffsetMutant(Roi, axisOffset) == IF Roi > axisOffset THEN MinContext ELSE axisOffset - Roi

\* offsetX / offsetY (lines 111-118).
AxisOffset(Roi, axisOffset) == IF Roi >= axisOffset THEN MinContext ELSE axisOffset - Roi

\* (offsetXLeft, offsetXRight) (lines 125-126).
SplitX(offsetX) == <<offsetX \div 2, offsetX - (offsetX \div 2)>>

\* (offsetYTop, offsetYBottom) (lines 131-132).
SplitY(offsetY) ==
  LET offsetYTop == offsetY - (offsetY \div 2)
  IN  <<offsetYTop, offsetY - offsetYTop>>

\* The mutant forgets to crop at the origin.
AddSpaceXMutant(xmin, xmax, offsetXLeft, offsetXRight, frameWidth) ==
  <<xmin - offsetXLeft, Min(xmax + offsetXRight, frameWidth)>>

\* "Add space on X" (lines 135-183): (RoiXMin, RoiXMax).
AddSpaceX(xmin, xmax, offsetXLeft, offsetXRight, frameWidth) ==
  IF (xmin - offsetXLeft) < 0
    THEN LET availableSpaceLeft == xmin
             offsetXLeft2 == offsetXLeft - availableSpaceLeft
         IN  <<0,
               IF (xmax + offsetXLeft2 + offsetXRight) < frameWidth
                 THEN xmax + offsetXLeft2 + offsetXRight
               ELSE IF (xmax + offsetXLeft2 + offsetXRight) = frameWidth
                 THEN frameWidth
               ELSE IF (xmax + offsetXRight) < frameWidth
                 THEN xmax + offsetXRight
               ELSE IF (xmax + offsetXRight) = frameWidth
                 THEN frameWidth
               ELSE frameWidth>>
    ELSE IF (xmax + offsetXRight) < frameWidth
      THEN <<xmin - offsetXLeft, xmax + offsetXRight>>
    ELSE IF (xmax + offsetXRight) = frameWidth
      THEN <<xmin - offsetXLeft, frameWidth>>
    ELSE LET availableSpaceRight == frameWidth - xmax
             offsetXRight2 == offsetXRight - availableSpaceRight
         IN  <<IF (xmin - offsetXLeft - offsetXRight2) > 0
                 THEN xmin - offsetXLeft - offsetXRight2
               ELSE IF (xmin - offsetXLeft - offsetXRight2) = 0
                 THEN 0
               ELSE xmin - offsetXLeft,
               frameWidth>>

\* The mutant crops at the origin without compensating in the bottom.
AddSpaceYMutant(ymin, ymax, offsetYTop, offsetYBottom, frameHeight) ==
  IF (ymin - offsetYTop) < 0
    THEN <<0, Min(ymax + offsetYBottom, frameHeight)>>
    ELSE <<ymin - offsetYTop, Min(ymax + offsetYTop, frameHeight)>>

\* "Add space on y" (lines 186-233): (RoiYMin, RoiYMax).  Line 216 adds
\* offsetYTop, not offsetYBottom, to ymax.
AddSpaceY(ymin, ymax, offsetYTop, offsetYBottom, frameHeight) ==
  IF (ymin - offsetYTop) < 0
    THEN LET availableSpaceTop == ymin
             offsetYTop2 == offsetYTop - availableSpaceTop
         IN  <<0,
               IF (ymax + offsetYTop2 + offsetYBottom) < frameHeight
                 THEN ymax + offsetYTop2 + offsetYBottom
               ELSE IF (ymax + offsetYTop2 + offsetYBottom) = frameHeight
                 THEN frameHeight
               ELSE IF (ymax + offsetYBottom) < frameHeight
                 THEN ymax + offsetYBottom
               ELSE IF (ymax + offsetYBottom) = frameHeight
                 THEN frameHeight
               ELSE frameHeight>>
    ELSE IF (ymax + offsetYBottom) < frameHeight
      THEN <<ymin - offsetYTop, ymax + offsetYTop>>
    ELSE IF (ymax + offsetYBottom) = frameHeight
      THEN <<ymin - offsetYTop, frameHeight>>
    ELSE LET availableSpaceBottom == frameHeight - ymax
             offsetYBottom2 == offsetYBottom - availableSpaceBottom
         IN  <<IF (ymin - offsetYTop - offsetYBottom2) > 0
                 THEN ymin - offsetYTop - offsetYBottom2
               ELSE IF (ymin - offsetYTop - offsetYBottom2) = 0
                 THEN 0
               ELSE ymin - offsetYTop,
               frameHeight>>

\* adjustImage past its argument checks (lines 89-244):
\* (RoiXMin, RoiYMin, RoiXMax, RoiYMax).
AdjustImage(frameHeight, frameWidth, boundingBoxes, offset) ==
  LET effective == EffectiveOffset(frameHeight, frameWidth, offset)
      widthOffset == effective[1]
      heightOffset == effective[2]
      b == Boundaries(boundingBoxes)
      xmin == b[1]
      ymin == b[2]
      xmax == b[3]
      ymax == b[4]
      RoiX == xmax - xmin
      RoiY == ymax - ymin
      offsetY == AxisOffset(RoiY, heightOffset)
      offsetX == AxisOffset(RoiX, widthOffset)
      x == AddSpaceX(xmin, xmax, SplitX(offsetX)[1], SplitX(offsetX)[2], frameWidth)
      y == AddSpaceY(ymin, ymax, SplitY(offsetY)[1], SplitY(offsetY)[2], frameHeight)
  IN  <<x[1], y[1], x[2], y[2]>>

\* A call of adjustImage with boxes (lines 24-244).
Adjust ==
  /\ pc = "start"
  /\ args.op = "adjustImage"
  /\ args.boundingBoxes # <<>>
  /\ ret' = AdjustImage(args.frameHeight, args.frameWidth, args.boundingBoxes, args.offset)
  /\ pc' = "done"
  /\ UNCHANGED <<args, plan, calc, exc>>

\* A call of adjustImage with an empty list of boxes: min() of the empty
\* x_coordinates raises (line 108).
AdjustNoBoxes ==
  /\ pc = "start"
  /\ args.op = "adjustImage"
  /\ args.boundingBoxes = <<>>
  /\ pc' = "raised"
  /\ exc' = "ValueError"
  /\ UNCHANGED <<args, plan, calc, ret>>

\* Frames of the adjuster: one smaller and one larger than 10.
AdjustFrameSmall == 7
AdjustFrameLarge == 13
AdjustFrameDims == {AdjustFrameSmall, AdjustFrameLarge}

\* Coordinates inside a frame dimension: the edges, their neighbours, the middle.
AdjustCoords(d) == {0, 1, 3, d \div 2, d - 3, d - 1, d}
CornerCoords(d) == {0, d \div 2, d}

BoxesOver(xs, ys) ==
  { <<x0, y0, x1, y1>> : x0 \in xs, y0 \in ys, x1 \in xs, y1 \in ys }

\* Boxes with xmin <= xmax and ymin <= ymax.
WellFormed(B) == { b \in B : b[1] <= b[3] /\ b[2] <= b[4] }

\* Margins: none, below 10, above 10, and larger than every frame.
AdjustMargins == {0, 2, 5, 11, AdjustFrameLarge + 1}

\* The lists of boxes drawn for a frame: every single box over AdjustCoords,
\* every pair of boxes over CornerCoords, and the empty list.
AdjustBoxLists(fw, fh) ==
  LET single == { <<b>> : b \in WellFormed(BoxesOver(AdjustCoords(fw), AdjustCoords(fh))) }
      corner == WellFormed(BoxesOver(CornerCoords(fw), CornerCoords(fh)))
      double == { <<b, c>> : b \in corner, c \in corner }
  IN  single \cup double \cup {<<>>}

\* ---------------------------------------------------- includeBoundingBoxes
\* "If the x and y axis are contained in edges" (lines 274-275); edges is
\* (ix, iy, x, y) and a box is (bix, biy, bx, by).
ContainedMutant(box, edges) ==
  /\ (box[1] > edges[1]) /\ (box[3] <= edges[3])
  /\ (box[2] >= edges[2]) /\ (box[4] <= edges[4])
Contained(box, edges) ==
  /\ (box[1] >= edges[1]) /\ (box[3] <= edges[3])
  /\ (box[2] >= edges[2]) /\ (box[4] <= edges[4])

\* The box moved into the frame of the edges (lines 277-280).
Translated(box, edges) ==
  <<box[1] - edges[1], box[2] - edges[2], box[3] - edges[1], box[4] - edges[2]>>

\* "One of the bounding boxes is negative" (line 283), on the translated box.
NegativeBox(t) == (t[1] < 0) \/ (t[2] < 0)

\* A far coordinate that equals the extent of the edges loses 1
\* (lines 285-288), on the translated box.
OffTheEdges(t, edges) ==
  <<t[1], t[2],
    IF t[3] = (edges[3] - edges[1]) THEN t[3] - 1 ELSE t[3],
    IF t[4] = (edges[4] - edges[2]) THEN t[4] - 1 ELSE t[4]>>

\* The loop "for i in range(len(boundingBoxes))" from turn i on (lines 270-291):
\* the two lists at the return, or the exception of line 284.
RECURSIVE IncludeLoop(_, _, _, _, _, _)
IncludeLoop(i, edges, boundingBoxes, names, newBoundingBoxes, newNames) ==
  IF i > Len(boundingBoxes)
    THEN [raised |-> FALSE, value |-> <<newBoundingBoxes, newNames>>]
  ELSE IF ~Contained(boundingBoxes[i], edges)
    THEN IncludeLoop(i + 1, edges, boundingBoxes, names, newBoundingBoxes, newNames)
  ELSE IF NegativeBox(Translated(boundingBoxes[i], edges))
    THEN [raised |-> TRUE, value |-> <<>>]
  ELSE IncludeLoop(i + 1, edges, boundingBoxes, names,
                   Append(newBoundingBoxes, OffTheEdges(Translated(boundingBoxes[i], edges), edges)),
                   Append(newNames, names[i]))

\* A call of includeBoundingBoxes (lines 246-292).
IncludeBoundingBoxes ==
  /\ pc = "start"
  /\ args.op = "includeBoundingBoxes"
  /\ LET r == IncludeLoop(1, args.edges, args.boundingBoxes, args.names, <<>>, <<>>)
     IN  /\ pc' = IF r.raised THEN "raised" ELSE "done"
         /\ exc' = IF r.raised THEN "Exception" ELSE exc
         /\ ret' = r.value
  /\ UNCHANGED <<args, plan, calc>>

\* Coordinates of the crops and boxes drawn for the clipper.
MaxClipX == 2
MaxClipY == 1
Labels == {"cat", "dog"}

ClipBoxes == WellFormed(BoxesOver(0..MaxClipX, 0..MaxClipY))

\* (boundingBoxes, names) of equal length: no box, one box, two boxes.
LabeledLists ==
  UNION { [1..n -> ClipBoxes] \X [1..n -> Labels] : n \in {0, 1, 2} }

\* ------------------------------------------------------------- lazySAMEpad
\* np.zeros((n, cols, 3)): n rows of cols zero pixels (the three channels of a
\* pixel are one value here).
ZeroRows(n, cols) == [i \in 1..n |-> [j \in 1..cols |-> 0]]

\* The rows or columns added on each side by BOTH_SIDES (lines 587-588,
\* 592-593, 599-600, 606-607): int(zeros/2) of an even amount, and of the
\* amount plus one when it is odd.
SideZeros(zeros) == IF zeros % 2 = 0 THEN zeros \div 2 ELSE (zeros + 1) \div 2

\* r_[np.zeros((n, cols, 3)), frame, np.zeros((n, cols, 3))] (lines 589, 594).
PadRowsBothSides(frame, n) ==
  ZeroRows(n, Len(frame[1])) \o frame \o ZeroRows(n, Len(frame[1]))

\* The container of lines 602-603 and 608-609: every row between n zero
\* columns on each side.
PadColsBothSides(frame, n) ==
  [i \in 1..Len(frame) |-> ZeroRows(1, n)[1] \o frame[i] \o ZeroRows(1, n)[1]]

\* ONE_SIDE (lines 613-621): zeros_h rows below, zeros_w columns to the right.
PadOneSide(frame, zeros_h, zeros_w) ==
  LET below == frame \o ZeroRows(zeros_h, Len(frame[1]))
  IN  [i \in 1..Len(below) |-> below[i] \o ZeroRows(1, zeros_w)[1]]

\* lazySAMEpad (lines 584-621).
LazySAMEpad(frame, zeros_h, zeros_w, padding_type) ==
  IF padding_type = "BOTH_SIDES"
    THEN PadColsBothSides(PadRowsBothSides(frame, SideZeros(zeros_h)), SideZeros(zeros_w))
    ELSE PadOneSide(frame, zeros_h, zeros_w)

\* A call of lazySAMEpad (lines 568-621).
Pad ==
  /\ pc = "start"
  /\ args.op = "lazySAMEpad"
  /\ ret' = LazySAMEpad(args.frame, args.zeros_h, args.zeros_w, args.padding_type)
  /\ pc' = "done"
  /\ UNCHANGED <<args, plan, calc, exc>>

\* Rasters of up to MaxRaster x MaxRaster non-zero pixels, and up to MaxZeros
\* zeros per axis.
MaxRaster == 2
MaxZeros == 3
Pixels == {1, 2}
Rasters == UNION { [1..r -> [1..c -> Pixels]] : r \in 1..MaxRaster, c \in 1..MaxRaster }

\* ------------------------------------------------------- specifications
Idle ==
  /\ pc = "start"
  /\ plan = NoPlan
  /\ calc = NoCalc
  /\ ret = <<>>
  /\ exc = None

CalcSteps ==
  \/ HeightLoopStep
  \/ HeightLoopBreak
  \/ WidthLoopStep
  \/ WidthLoopBreak
  \/ GetValidPaddingReturn

\* Direct calls of the two calculators.
InitCalc ==
  /\ \E fn \in {"get_valid_padding", "get_same_padding"}, h \in CalcAxes, w \in CalcAxes :
       args = CalcRecord(fn, h, w)
  /\ Idle
NextCalc == CallCalculator \/ GetSamePaddingReturn \/ GetSamePaddingAssertionError \/ CalcSteps
SpecCalc == InitCalc /\ [][NextCalc]_vars

\* Calls of divideIntoPatches.  The planner hands get_same_padding a window
\* that fits the image, so GetSamePaddingAssertionError is never enabled here.
InitPlan ==
  /\ \E iw \in FrameDims, ih \in FrameDims, q \in PlanParams : args = PlanRecord(iw, ih, q)
  /\ Idle
NextPlan == PlanBegin \/ PlanUnknownPadding \/ PlanSameContinue \/ CalcSteps
SpecPlan == InitPlan /\ [][NextPlan]_vars

\* Calls of adjustImage.
InitAdjust ==
  /\ \E fw \in AdjustFrameDims, fh \in AdjustFrameDims :
       \E bs \in AdjustBoxLists(fw, fh), mw \in AdjustMargins, mh \in AdjustMargins :
         args = [op |-> "adjustImage", frameHeight |-> fh, frameWidth |-> fw,
                 boundingBoxes |-> bs, offset |-> <<mw, mh>>]
  /\ Idle
NextAdjust == Adjust \/ AdjustNoBoxes
SpecAdjust == InitAdjust /\ [][NextAdjust]_vars

\* Calls of includeBoundingBoxes.
InitClip ==
  /\ \E ix \in 0..MaxClipX, iy \in 0..MaxClipY, x \in 0..MaxClipX, y \in 0..MaxClipY :
       \E l \in LabeledLists :
         /\ ix <= x /\ iy <= y
         /\ args = [op |-> "includeBoundingBoxes", edges |-> <<ix, iy, x, y>>,
                    boundingBoxes |-> l[1], names |-> l[2]]
  /\ Idle
NextClip == IncludeBoundingBoxes
SpecClip == InitClip /\ [][NextClip]_vars

\* Calls of lazySAMEpad.
InitPad ==
  /\ \E f \in Rasters, zh \in 0..MaxZeros, zw \in 0..MaxZeros :
       \E t \in {"BOTH_SIDES", "ONE_SIDE"} :
         args = [op |-> "lazySAMEpad", frame |-> f, zeros_h |-> zh, zeros_w |-> zw,
                 padding_type |-> t]
  /\ Idle
NextPad == Pad
SpecPad == InitPad /\ [][NextPad]_vars

\* ------------------------------------------------------------ the claims
\* The closed forms the documentation gives for the calculators, per axis.
CountValidPatches(windowDim, strideDim, targetDim) ==
  IF windowDim > targetDim THEN 0 ELSE ((targetDim - windowDim) \div strideDim) + 1

FittedExtent(windowDim, strideDim, targetDim) ==
  windowDim + strideDim * (CountValidPatches(windowDim, strideDim, targetDim) - 1)

ComputeSamePadding(windowDim, strideDim, targetDim) ==
  IF FittedExtent(windowDim, strideDim, targetDim) = targetDim THEN 0
  ELSE FittedExtent(windowDim, strideDim, targetDim) + strideDim - targetDim

DirectCall(fn) == args.op = fn

PositiveCalcArgs ==
  /\ args.slide_window_height >= 1 /\ args.stride_height >= 1 /\ args.image_height >= 1
  /\ args.slide_window_width >= 1 /\ args.stride_width >= 1 /\ args.image_width >= 1

PlanCall(padding) == args.op = "divideIntoPatches" /\ DefaultPadding(args.padding) = padding

\* No loop of a call whose strides are positive is cut by IterCap.
LoopsWithinCap ==
  (pc \in {"height_loop", "width_loop"} /\ calc.stride_height >= 1 /\ calc.stride_width >= 1)
    => /\ calc.number_patches_height < IterCap
       /\ calc.number_patches_width < IterCap

\* C1 (as claimed): VALID_FIT_ALL with 1 <= columns <= frameWidth and
\* 1 <= rows <= frameHeight returns exactly rows * columns patches, with
\* rowCount = rows and colCount = columns.
C1_FitAllExactCount ==
  (pc = "done" /\ PlanCall("VALID_FIT_ALL")
     /\ args.numberPatches[1] \in 1..args.imageWidth
     /\ args.numberPatches[2] \in 1..args.imageHeight)
    => /\ Len(ret[1]) = args.numberPatches[2] * args.numberPatches[1]
       /\ ret[2] = args.numberPatches[2]
       /\ ret[3] = args.numberPatches[1]

\* C2: for a non-empty list of well-formed boxes inside the frame and
\* non-negative margins (the oversized-margin fallback included), the crop
\* adjustImage returns satisfies 0 <= minX <= unionXmin, unionXmax <= maxX <=
\* frameWidth, 0 <= minY <= unionYmin and unionYmax <= maxY <= frameHeight.
C2_CropEnclosesUnionInFrame ==
  (pc = "done" /\ args.op = "adjustImage") =>
    LET union == Boundaries(args.boundingBoxes)
    IN  /\ 0 <= ret[1] /\ ret[1] <= union[1]
        /\ union[3] <= ret[3] /\ ret[3] <= args.frameWidth
        /\ 0 <= ret[2] /\ ret[2] <= union[2]
        /\ union[4] <= ret[4] /\ ret[4] <= args.frameHeight

\* C2 witness: adjustImage has returned under the oversized-margin fallback
\* for two boxes, with the crop clamped at the origin on x and at the frame's
\* far edge on y.
C2_Witness ==
  /\ pc = "done" /\ args.op = "adjustImage"
  /\ Len(args.boundingBoxes) = 2
  /\ args.offset[1] >= args.frameWidth
  /\ ret[1] = 0 /\ Boundaries(args.boundingBoxes)[1] > 0
  /\ ret[4] = args.frameHeight /\ Boundaries(args.boundingBoxes)[4] < args.frameHeight

ClipDone == pc = "done" /\ args.op = "includeBoundingBoxes"
CropWidth == args.edges[3] - args.edges[1]
CropHeight == args.edges[4] - args.edges[2]

\* C3 (as claimed): every box includeBoundingBoxes returns has its four
\* coordinates >= 0 and within the crop's extent (x <= cropWidth, y <=
\* cropHeight), and none of them equals the crop's far edge (cropWidth on x,
\* cropHeight on y), zero-width and zero-height crops included.
C3_ClippedBoxesInsideCrop ==
  ClipDone =>
    \A k \in 1..Len(ret[1]) :
      LET b == ret[1][k]
      IN  /\ b[1] >= 0 /\ b[2] >= 0 /\ b[3] >= 0 /\ b[4] >= 0
          /\ b[1] <= CropWidth /\ b[3] <= CropWidth
          /\ b[2] <= CropHeight /\ b[4] <= CropHeight
          /\ b[1] # CropWidth /\ b[3] # CropWidth
          /\ b[2] # CropHeight /\ b[4] # CropHeight

\* C4: for positive windowDim, strideDim and targetDim, get_valid_padding
\* returns on each axis 0 when windowDim > targetDim and
\* floor((targetDim - windowDim) / strideDim) + 1 otherwise, which is >= 1
\* whenever windowDim <= targetDim; for (10, 5, 25) it returns 4.  No such call
\* is cut short by the model's iteration cap.
C4_CountValidPatches ==
  (DirectCall("get_valid_padding") /\ PositiveCalcArgs) =>
    /\ LoopsWithinCap
    /\ pc # "raised"
    /\ pc = "done" =>
         /\ ret[1] = CountValidPatches(args.slide_window_height, args.stride_height, args.image_height)
         /\ ret[2] = CountValidPatches(args.slide_window_width, args.stride_width, args.image_width)
         /\ (args.slide_window_height <= args.image_height => ret[1] >= 1)
         /\ (args.slide_window_width <= args.image_width => ret[2] >= 1)
         /\ (args.slide_window_height > args.image_height => ret[1] = 0)
         /\ (<<args.slide_window_height, args.stride_height, args.image_height>> = <<10, 5, 25>> => ret[1] = 4)
         /\ (<<args.slide_window_width, args.stride_width, args.image_width>> = <<10, 5, 25>> => ret[2] = 4)

\* C4 witness: get_valid_padding has returned 4 for (10, 5, 25) on the height
\* axis and 0 for a window wider than the image on the width axis.
C4_Witness ==
  /\ pc = "done"
  /\ DirectCall("get_valid_padding")
  /\ PositiveCalcArgs
  /\ <<args.slide_window_height, args.stride_height, args.image_height>> = <<10, 5, 25>>
  /\ args.slide_window_width > args.image_width
  /\ ret = <<4, 0>>

\* C5 (as claimed): for positive windowDim, strideDim and targetDim, windowDim >
\* targetDim included, get_same_padding returns without failing, and returns
\* on each axis 0 when fittedExtent = targetDim and fittedExtent + strideDim -
\* targetDim otherwise, a value >= 0.
C5_SamePaddingNeverFails ==
  (DirectCall("get_same_padding") /\ PositiveCalcArgs) =>
    /\ pc # "raised"
    /\ pc = "done" =>
         /\ ret[1] = ComputeSamePadding(args.slide_window_height, args.stride_height, args.image_height)
         /\ ret[2] = ComputeSamePadding(args.slide_window_width, args.stride_width, args.image_width)
         /\ ret[1] >= 0
         /\ ret[2] >= 0

\* C5 scenario kept by the code: get_same_padding returns 2 for (10, 5, 23).
C5_Scenario ==
  (pc = "done" /\ DirectCall("get_same_padding")
     /\ <<args.slide_window_height, args.stride_height, args.image_height>> = <<10, 5, 23>>)
    => ret[1] = 2

\* get_same_padding on one axis as a function, by a whole run of its loop
\* (lines 527-562).
SamePaddingAxis(windowDim, strideDim, targetDim) ==
  LET r == RunLoop(windowDim, strideDim, targetDim, 0)
  IN  SameZeros(FixExcess(r[1], strideDim), strideDim, targetDim)

C6_Pre ==
  /\ PlanCall("SAME")
  /\ args.slideWindowSize # NonePair
  /\ args.strideSize # NonePair
  /\ args.slideWindowSize[1] \in 1..args.imageWidth
  /\ args.slideWindowSize[2] \in 1..args.imageHeight
  /\ args.strideSize[1] >= 1
  /\ args.strideSize[2] >= 1

\* C6: when SAME with 1 <= window <= frame and stride >= 1 on each axis has
\* returned (patches, rows, columns, zeros_h, zeros_w), the zeros are >= 0, the
\* far edge of the last patch of every row is frameWidth + zeros_w, the far
\* edge of the patches of the last row is frameHeight + zeros_h, the counts
\* are the closed-form counts of the extended dimensions, and
\* get_same_padding of an extended dimension is 0.  (window and stride are
\* the planner's, after its normalisation.)
C6_SameReachesExtendedFrame ==
  (pc = "done" /\ C6_Pre) =>
    LET patches == ret[1]
        rows == ret[2]
        cols == ret[3]
        extHeight == args.imageHeight + ret[4]
        extWidth == args.imageWidth + ret[5]
    IN  /\ ret[4] >= 0 /\ ret[5] >= 0
        /\ rows >= 1 /\ cols >= 1
        /\ Len(patches) = rows * cols
        /\ rows = CountValidPatches(args.slideWindowSize[2], plan.strideHeight, extHeight)
        /\ cols = CountValidPatches(args.slideWindowSize[1], plan.strideWidth, extWidth)
        /\ \A i \in 1..rows : patches[i * cols][3] = extWidth
        /\ \A j \in 1..cols : patches[(rows - 1) * cols + j][4] = extHeight
        /\ SamePaddingAxis(args.slideWindowSize[2], plan.strideHeight, extHeight) = 0
        /\ SamePaddingAxis(args.slideWindowSize[1], plan.strideWidth, extWidth) = 0

\* C6 witness: a SAME plan has returned with padding on both axes and more
\* than one row and column.
C6_Witness ==
  /\ pc = "done" /\ C6_Pre
  /\ ret[4] > 0 /\ ret[5] > 0
  /\ ret[2] > 1 /\ ret[3] > 1

\* C7 (as claimed): a call with a stride <= 0 fails fast, so no calculator
\* ever runs its loops with a stride <= 0 (with such a stride a loop whose
\* window fits never ends).
C7_FailsFastOnBadStride ==
  (pc \in {"height_loop", "width_loop", "tail", "done"})
    => (calc.stride_height > 0 /\ calc.stride_width > 0)

\* A loop that has taken IterCap turns was cut by the model: by LoopsWithinCap
\* only calls with a stride <= 0 get there.
C7_LoopsEnd ==
  calc.number_patches_height < IterCap /\ calc.number_patches_width < IterCap

PadDone(t) == pc = "done" /\ args.op = "lazySAMEpad" /\ args.padding_type = t

\* C8 (as claimed): BOTH_SIDES returns a raster of exactly (origHeight +
\* zeros_h) x (origWidth + zeros_w) in which the input starts after
\* floor(zeros_h / 2) zero rows and floor(zeros_w / 2) zero columns, the rest
\* of the zeros being on the bottom and on the right.
C8_SymmetricPadSize ==
  PadDone("BOTH_SIDES") =>
    LET origHeight == Len(args.frame)
        origWidth == Len(args.frame[1])
        top == args.zeros_h \div 2
        left == args.zeros_w \div 2
    IN  /\ Len(ret) = origHeight + args.zeros_h
        /\ \A i \in 1..Len(ret) : Len(ret[i]) = origWidth + args.zeros_w
        /\ \A i \in 1..Len(ret) : \A j \in 1..Len(ret[i]) :
             ret[i][j] =
               IF (i - top) \in 1..origHeight /\ (j - left) \in 1..origWidth
                 THEN args.frame[i - top][j - left]
                 ELSE 0

C9_Pre ==
  /\ PlanCall("VALID")
  /\ args.strideSize # NonePair
  /\ DefaultPair(args.slideWindowSize, <<0, 0>>)[1] <= args.imageWidth
  /\ DefaultPair(args.slideWindowSize, <<0, 0>>)[2] <= args.imageHeight
  /\ args.strideSize[1] >= 1
  /\ args.strideSize[2] >= 1

\* C9: when VALID with window <= frame and stride >= 1 on each axis has
\* returned (patches, rows, columns), rows and columns are the closed-form
\* counts of the two axes, there are rows * columns patches, and the patch at
\* index i * columns + j is (j * strideWidth, i * strideHeight,
\* j * strideWidth + windowWidth, i * strideHeight + windowHeight).  (stride is
\* the planner's, after its normalisation.)
C9_ValidRowMajor ==
  (pc = "done" /\ C9_Pre) =>
    LET patches == ret[1]
        rows == ret[2]
        cols == ret[3]
        window == DefaultPair(args.slideWindowSize, <<0, 0>>)
    IN  /\ rows = CountValidPatches(window[2], plan.strideHeight, args.imageHeight)
        /\ cols = CountValidPatches(window[1], plan.strideWidth, args.imageWidth)
        /\ Len(patches) = rows * cols
        /\ \A i \in 0..(rows - 1) : \A j \in 0..(cols - 1) :
             patches[i * cols + j + 1] =
               <<j * plan.strideWidth, i * plan.strideHeight,
                 j * plan.strideWidth + window[1], i * plan.strideHeight + window[2]>>

\* C9 witness: a VALID plan has returned a grid of at least 2 x 2 patches
\* whose stride differs from its window.
C9_Witness ==
  /\ pc = "done" /\ C9_Pre
  /\ ret[2] >= 2 /\ ret[3] >= 2
  /\ args.slideWindowSize # NonePair
  /\ args.slideWindowSize[1] # args.strideSize[1]

\* The boxes of the call that lie inside the crop, by their indices.
KeptIndices ==
  { i \in 1..Len(args.boundingBoxes) :
      /\ args.boundingBoxes[i][1] >= args.edges[1]
      /\ args.boundingBoxes[i][3] <= args.edges[3]
      /\ args.boundingBoxes[i][2] >= args.edges[2]
      /\ args.boundingBoxes[i][4] <= args.edges[4] }

\* The place in the output of kept box i: kept boxes keep their input order.
Rank(i) == Cardinality({ j \in KeptIndices : j <= i })

\* C10: includeBoundingBoxes returns one box and one label for exactly the
\* boxes with bxmin >= cxmin, bxmax <= cxmax, bymin >= cymin and bymax <= cymax,
\* in their input order: the k-th output box is the k-th such box moved by
\* the crop's corner (its far coordinates possibly less 1) and the k-th output
\* label is that box's label; every other box is dropped.
C10_ClipKeepsContainedInOrder ==
  ClipDone =>
    /\ Len(ret[1]) = Cardinality(KeptIndices)
    /\ Len(ret[2]) = Len(ret[1])
    /\ \A i \in KeptIndices :
         LET in == args.boundingBoxes[i]
             out == ret[1][Rank(i)]
         IN  /\ ret[2][Rank(i)] = args.names[i]
             /\ out[1] = in[1] - args.edges[1]
             /\ out[2] = in[2] - args.edges[2]
             /\ out[3] \in {in[3] - args.edges[1], in[3] - args.edges[1] - 1}
             /\ out[4] \in {in[4] - args.edges[2], in[4] - args.edges[2] - 1}

\* C10 witness: of two boxes with different labels the first overlaps the
\* crop only partly and is dropped, the second is kept with its label.
C10_Witness ==
  /\ ClipDone
  /\ Len(args.boundingBoxes) = 2
  /\ args.names[1] # args.names[2]
  /\ KeptIndices = {2}
  /\ args.boundingBoxes[1][1] < args.edges[1]
  /\ args.boundingBoxes[1][3] > args.edges[1]
  /\ ret[2] = <<args.names[2]>>

\* ---------------------------------------------- adjustImage, axis by axis
AdjustDone == pc = "done" /\ args.op = "adjustImage"

\* The union box (xmin, ymin, xmax, ymax) and its extents.
UnionBox == Boundaries(args.boundingBoxes)
RoiWidth == UnionBox[3] - UnionBox[1]
RoiHeight == UnionBox[4] - UnionBox[2]

\* The margins (width, height) after the oversized-margin fallback.
Margins == EffectiveOffset(args.frameHeight, args.frameWidth, args.offset)

\* The space added to an axis: 10 when the union box is at least as large as
\* the margin, the missing margin - roi otherwise.
ExtraSpace(roi, margin) == IF roi >= margin THEN 10 ELSE margin - roi
ExtraWidth == ExtraSpace(RoiWidth, Margins[1])
ExtraHeight == ExtraSpace(RoiHeight, Margins[2])

\* The space the documentation states: max(10, margin - roi).
StatedExtra(roi, margin) == Max(10, margin - roi)

\* The split of the space: the floor goes to the left on the width axis and
\* to the bottom on the height axis.
LeadingX == ExtraWidth \div 2
TrailingX == ExtraWidth - LeadingX
TrailingY == ExtraHeight \div 2
LeadingY == ExtraHeight - TrailingY

\* Neither frame edge clamps on the axis.
UnclampedX == (UnionBox[1] - LeadingX >= 0) /\ (UnionBox[3] + TrailingX <= args.frameWidth)
UnclampedY == (UnionBox[2] - LeadingY >= 0) /\ (UnionBox[4] + TrailingY <= args.frameHeight)

\* The union box is at least e - floor(e / 2) away from both frame edges of
\* the axis, for the stated space e.
FarFromEdges(unionMin, unionMax, frameDim, e) ==
  (unionMin - (e - (e \div 2)) >= 0) /\ (unionMax + (e - (e \div 2)) <= frameDim)

\* C11 (as claimed): on each axis the space added is max(10, margin - roi):
\* when the union box is far enough from both frame edges that neither side
\* is clamped, the crop's extent exceeds the union box's extent by at least
\* 10, for every non-negative margin (0 < margin - roi < 10 included).
C11_AtLeastTenAdded ==
  AdjustDone =>
    /\ FarFromEdges(UnionBox[1], UnionBox[3], args.frameWidth, StatedExtra(RoiWidth, Margins[1]))
         => (ret[3] - ret[1]) - RoiWidth >= 10
    /\ FarFromEdges(UnionBox[2], UnionBox[4], args.frameHeight, StatedExtra(RoiHeight, Margins[2]))
         => (ret[4] - ret[2]) - RoiHeight >= 10

\* C11 (amended): on each axis the space added is 10 when roi >= margin and
\* margin - roi otherwise (the margin after the fallback): when neither side
\* of the axis is clamped, the crop's extent exceeds the union box's extent
\* by at least that space, which is at least 10 when roi >= margin and at
\* least 1, possibly less than 10, when roi < margin.
C11_AddedSpace ==
  AdjustDone =>
    /\ UnclampedX => (ret[3] - ret[1]) - RoiWidth >= ExtraWidth
    /\ UnclampedY => (ret[4] - ret[2]) - RoiHeight >= ExtraHeight
    /\ (RoiWidth >= Margins[1]) => ExtraWidth = 10
    /\ (RoiWidth < Margins[1]) => ExtraWidth >= 1
    /\ (RoiHeight >= Margins[2]) => ExtraHeight = 10
    /\ (RoiHeight < Margins[2]) => ExtraHeight >= 1

\* C11 witness: adjustImage has returned for a union box far from the edges
\* of the width axis with 0 < margin - roi < 10, and the crop is wider than
\* the union box by margin - roi, less than 10; on the height axis roi >=
\* margin and the crop is higher by at least 10.
C11_Witness ==
  /\ AdjustDone
  /\ FarFromEdges(UnionBox[1], UnionBox[3], args.frameWidth, StatedExtra(RoiWidth, Margins[1]))
  /\ UnclampedX
  /\ Margins[1] - RoiWidth > 0 /\ Margins[1] - RoiWidth < 10
  /\ (ret[3] - ret[1]) - RoiWidth = Margins[1] - RoiWidth
  /\ UnclampedY
  /\ RoiHeight >= Margins[2]
  /\ (ret[4] - ret[2]) - RoiHeight >= 10

\* C12 (as claimed): when neither frame edge clamps on an axis, the space of
\* the axis is split as minX = unionXmin - floor(extra / 2), maxX = unionXmax
\* + (extra - floor(extra / 2)), maxY = unionYmax + floor(extra / 2), minY =
\* unionYmin - (extra - floor(extra / 2)), so the crop's extent is the union's
\* extent plus extra on both axes, for odd and for even extra.
C12_ExactSplit ==
  AdjustDone =>
    /\ UnclampedX =>
         /\ ret[1] = UnionBox[1] - (ExtraWidth \div 2)
         /\ ret[3] = UnionBox[3] + (ExtraWidth - (ExtraWidth \div 2))
         /\ ret[3] - ret[1] = RoiWidth + ExtraWidth
    /\ UnclampedY =>
         /\ ret[4] = UnionBox[4] + (ExtraHeight \div 2)
         /\ ret[2] = UnionBox[2] - (ExtraHeight - (ExtraHeight \div 2))
         /\ ret[4] - ret[2] = RoiHeight + ExtraHeight

\* The part of C12 the code keeps: the split of the width axis, and the
\* height axis when its space is even or the bottom edge is met exactly.
C12_WidthAxisSplit ==
  AdjustDone =>
    /\ UnclampedX =>
         /\ ret[1] = UnionBox[1] - (ExtraWidth \div 2)
         /\ ret[3] = UnionBox[3] + (ExtraWidth - (ExtraWidth \div 2))
         /\ ret[3] - ret[1] = RoiWidth + ExtraWidth
    /\ (UnclampedY /\ (ExtraHeight % 2 = 0 \/ UnionBox[4] + TrailingY = args.frameHeight)) =>
         /\ ret[4] = UnionBox[4] + (ExtraHeight \div 2)
         /\ ret[2] = UnionBox[2] - (ExtraHeight - (ExtraHeight \div 2))

\* The crop's max the documentation states for a min clamped to 0.
StatedClampedMax(unionMin, unionMax, leading, trailing, frameDim) ==
  LET compensated == unionMax + trailing + (leading - unionMin)
  IN  IF compensated <= frameDim THEN compensated ELSE frameDim

\* The crop's max for a min clamped to 0: when the compensation does not fit
\* the frame, none of it is added.
ClampedMax(unionMin, unionMax, leading, trailing, frameDim) ==
  LET compensated == unionMax + trailing + (leading - unionMin)
  IN  IF compensated <= frameDim THEN compensated ELSE Min(unionMax + trailing, frameDim)

\* C13 (as claimed): on each axis, when unionMin - leading < 0 the crop's min
\* is 0 and the crop's max is unionMax + trailing + (leading - unionMin) when
\* that value is <= the frame dimension, and the frame dimension whenever
\* that value exceeds it.
C13_ClampedToFrameEdge ==
  AdjustDone =>
    /\ (UnionBox[1] - LeadingX < 0) =>
         /\ ret[1] = 0
         /\ ret[3] = StatedClampedMax(UnionBox[1], UnionBox[3], LeadingX, TrailingX, args.frameWidth)
    /\ (UnionBox[2] - LeadingY < 0) =>
         /\ ret[2] = 0
         /\ ret[4] = StatedClampedMax(UnionBox[2], UnionBox[4], LeadingY, TrailingY, args.frameHeight)

\* C13 (amended): on each axis, when unionMin - leading < 0 the crop's min is
\* 0 and the crop's max is unionMax + trailing + (leading - unionMin) when
\* that value is <= the frame dimension; when it exceeds the frame dimension
\* the unused leading amount is dropped and the crop's max is unionMax +
\* trailing, clamped to the frame dimension.
C13_ClampedOrUncompensated ==
  AdjustDone =>
    /\ (UnionBox[1] - LeadingX < 0) =>
         /\ ret[1] = 0
         /\ ret[3] = ClampedMax(UnionBox[1], UnionBox[3], LeadingX, TrailingX, args.frameWidth)
    /\ (UnionBox[2] - LeadingY < 0) =>
         /\ ret[2] = 0
         /\ ret[4] = ClampedMax(UnionBox[2], UnionBox[4], LeadingY, TrailingY, args.frameHeight)

\* C13 witness: on the height axis the min was clamped to 0, the
\* compensated max exceeds the frame and the crop's max is unionMax +
\* trailing, short of the frame edge; on the width axis the min was clamped
\* and the compensated max fits the frame.
C13_Witness ==
  /\ AdjustDone
  /\ UnionBox[2] - LeadingY < 0
  /\ UnionBox[4] + TrailingY + (LeadingY - UnionBox[2]) > args.frameHeight
  /\ ret[2] = 0
  /\ ret[4] = UnionBox[4] + TrailingY
  /\ ret[4] < args.frameHeight
  /\ UnionBox[1] - LeadingX < 0
  /\ UnionBox[1] > 0
  /\ ret[1] = 0
  /\ ret[3] = UnionBox[3] + TrailingX + (LeadingX - UnionBox[1])
  /\ ret[3] < args.frameWidth

\* The window and the stride the call passes, unset pairs being (0, 0).
PassedWindow == DefaultPair(args.slideWindowSize, <<0, 0>>)
PassedStride == DefaultPair(args.strideSize, <<0, 0>>)

\* A dimension that was oversized for its frame dimension is, after the
\* normalisation, frameDim - 1 but not below 1, hence within 1..frameDim.
NormalizedInFrame(passed, normalized, frameDim) ==
  (passed > frameDim) =>
    /\ normalized = Max(frameDim - 1, 1)
    /\ normalized >= 1
    /\ normalized <= frameDim

\* C14 (as claimed): for every frame of width and height >= 1, a window or
\* stride dimension that exceeds its frame dimension is replaced by frameDim
\* - 1 but never by a value below 1, so that it is >= 1 and <= the frame
\* dimension after the normalisation, and an oversized window yields at
\* least one patch of positive size on its axis.
C14_NormalizedAtLeastOne ==
  (args.op = "divideIntoPatches" /\ pc # "start" /\ DefaultPadding(args.padding) \in {"VALID", "SAME"}) =>
    /\ NormalizedInFrame(PassedWindow[1], plan.slideWindowWidth, args.imageWidth)
    /\ NormalizedInFrame(PassedWindow[2], plan.slideWindowHeight, args.imageHeight)
    /\ NormalizedInFrame(PassedStride[1], plan.strideWidth, args.imageWidth)
    /\ NormalizedInFrame(PassedStride[2], plan.strideHeight, args.imageHeight)
    /\ (pc = "done" /\ PassedWindow[1] > args.imageWidth) =>
         /\ ret[3] >= 1
         /\ \A k \in 1..Len(ret[1]) : ret[1][k][3] - ret[1][k][1] >= 1
    /\ (pc = "done" /\ PassedWindow[2] > args.imageHeight) =>
         /\ ret[2] >= 1
         /\ \A k \in 1..Len(ret[1]) : ret[1][k][4] - ret[1][k][2] >= 1

\* The part of C14 the code keeps: an oversized dimension becomes frameDim - 1.
C14_ReplacedByFrameLessOne ==
  (args.op = "divideIntoPatches" /\ pc # "start" /\ DefaultPadding(args.padding) \in {"VALID", "SAME"}) =>
    /\ (PassedWindow[1] > args.imageWidth) => plan.slideWindowWidth = args.imageWidth - 1
    /\ (PassedWindow[2] > args.imageHeight) => plan.slideWindowHeight = args.imageHeight - 1
    /\ (PassedStride[1] > args.imageWidth) => plan.strideWidth = args.imageWidth - 1
    /\ (PassedStride[2] > args.imageHeight) => plan.strideHeight = args.imageHeight - 1

====
